---- MODULE Spec2Model ----
(***************************************************************************)
(* Model of library/aes_alt.c: the reference body of the alternative      *)
(* single-block AES decrypt primitive, mbedtls_internal_aes_decrypt.      *)
(*                                                                         *)
(* The file is modelled at two levels.                                     *)
(*   - Build time: the file's conditional-compilation structure is kept   *)
(*     as a list of directives and run through a model of the             *)
(*     preprocessor, which yields the functions the translation unit      *)
(*     defines for a given set of configuration macros.                    *)
(*   - Run time: callers (threads) pass pointers to a key schedule        *)
(*     context, an input block and an output block; the function body is  *)
(*     applied to the objects the pointers name, so that aliasing of      *)
(*     input and output is expressible.                                    *)
(***************************************************************************)
EXTENDS Integers, Sequences, FiniteSets, TLC

VARIABLES
    config,   \* the configuration macros defined for the build
    ctxs,     \* memory: the key schedule contexts, by address
    bufs,     \* memory: the 16-byte block buffers, by address
    pc,       \* per thread: "idle", "called" (inside the function), "returned"
    call,     \* per thread: the arguments of its current / last call
    ret,      \* per thread: {} or {v}, v the value its last completed call returned
    pre,      \* per thread: the objects its call names, as they were on entry
    post      \* per thread: the objects its call names, as they were on return

vars == <<config, ctxs, bufs, pc, call, ret, pre, post>>

(***************************************************************************)
(* Bounds of the model.                                                    *)
(***************************************************************************)
NumThreads == 2      \* concurrent callers
MaxFill    == 1      \* block buffers hold one of the blocks Fill(0..MaxFill)

(***************************************************************************)
(* Program constants.                                                      *)
(***************************************************************************)
BlockSize == 16      \* const unsigned char input[16], unsigned char output[16]

\* mbedtls/platform.h: #define MBEDTLS_ERR_PLATFORM_FEATURE_UNSUPPORTED -0x0072
MBEDTLS_ERR_PLATFORM_FEATURE_UNSUPPORTED == 0 - 114

Threads == 1..NumThreads
CtxIds  == {"ctxA", "ctxB"}
BufIds  == {"buf", "tmp"}

\* The configuration macros aes_alt.c tests.
Macros == {"MBEDTLS_AES_C", "MBEDTLS_AES_DECRYPT_ALT"}

DecryptSymbol == "mbedtls_internal_aes_decrypt"
EncryptSymbol == "mbedtls_internal_aes_encrypt"

Fill(v) == [i \in 1..BlockSize |-> v]
Blocks  == {Fill(v) : v \in 0..MaxFill}

\* mbedtls_aes_context: key-length variant, number of rounds and the round
\* keys (one per round plus the initial one; a round key is held as the index
\* of the key it was expanded from).  Unpopulated is a context that was
\* initialised but never given a key.
KeyBits     == {128, 192, 256}
Rounds(bits) == 6 + bits \div 32
Expanded(bits) == [keybits |-> bits, nr |-> Rounds(bits),
                   rk |-> [r \in 0..Rounds(bits) |-> bits]]
Unpopulated == [keybits |-> 0, nr |-> 0, rk |-> [r \in 0..0 |-> 0]]
Contexts    == {Unpopulated} \cup {Expanded(b) : b \in KeyBits}

NoCall == [impl |-> "none"]
NoRet  == {}
NoMem  == [valid |-> FALSE]

(***************************************************************************)
(* Build time.                                                             *)
(***************************************************************************)

\* aes_alt.c with the function under the MBEDTLS_AES_C guard only.
AesAltSource_NoInnerGuard ==
    << [line |-> 20, kind |-> "include",  name |-> "common.h"],
       [line |-> 22, kind |-> "if",       name |-> "MBEDTLS_AES_C"],
       [line |-> 24, kind |-> "include",  name |-> "mbedtls/aes.h"],
       [line |-> 25, kind |-> "include",  name |-> "mbedtls/error.h"],
       [line |-> 28, kind |-> "function", name |-> "mbedtls_internal_aes_decrypt"],
       [line |-> 40, kind |-> "endif",    name |-> ""] >>

\* aes_alt.c with the function under the MBEDTLS_AES_DECRYPT_ALT guard only.
AesAltSource_NoOuterGuard ==
    << [line |-> 20, kind |-> "include",  name |-> "common.h"],
       [line |-> 24, kind |-> "include",  name |-> "mbedtls/aes.h"],
       [line |-> 25, kind |-> "include",  name |-> "mbedtls/error.h"],
       [line |-> 27, kind |-> "if",       name |-> "MBEDTLS_AES_DECRYPT_ALT"],
       [line |-> 28, kind |-> "function", name |-> "mbedtls_internal_aes_decrypt"],
       [line |-> 38, kind |-> "endif",    name |-> ""] >>

\* The directives and definitions of aes_alt.c, in file order.
AesAltSource ==
    << [line |-> 20, kind |-> "include",  name |-> "common.h"],
       [line |-> 22, kind |-> "if",       name |-> "MBEDTLS_AES_C"],
       [line |-> 24, kind |-> "include",  name |-> "mbedtls/aes.h"],
       [line |-> 25, kind |-> "include",  name |-> "mbedtls/error.h"],
       [line |-> 27, kind |-> "if",       name |-> "MBEDTLS_AES_DECRYPT_ALT"],
       [line |-> 28, kind |-> "function", name |-> DecryptSymbol],
       [line |-> 38, kind |-> "endif",    name |-> ""],
       [line |-> 40, kind |-> "endif",    name |-> ""] >>

\* The C preprocessor on #if defined(X) / #endif nesting: the set of
\* functions that survive, given the macros in defs.  stack holds, innermost
\* last, whether each open #if is satisfied.
RECURSIVE PreprocessFrom(_, _, _, _, _)
PreprocessFrom(src, defs, i, stack, out) ==
    IF i > Len(src) THEN out
    ELSE LET d == src[i]
             active == \A j \in 1..Len(stack) : stack[j]
         IN  CASE d.kind = "if" ->
                   PreprocessFrom(src, defs, i + 1, Append(stack, d.name \in defs), out)
               [] d.kind = "endif" ->
                   PreprocessFrom(src, defs, i + 1, SubSeq(stack, 1, Len(stack) - 1), out)
               [] d.kind = "function" ->
                   PreprocessFrom(src, defs, i + 1, stack,
                                  IF active THEN out \cup {d.name} ELSE out)
               [] OTHER ->
                   PreprocessFrom(src, defs, i + 1, stack, out)

Preprocess(src, defs) == PreprocessFrom(src, defs, 1, << >>, {})

\* The functions the object file of aes_alt.c defines in a build.
AesAltObject(defs) == Preprocess(AesAltSource, defs)

\* The reference implementation (library/aes.c): one function per direction,
\* left out of the build when that direction's alternative is enabled.
ReferenceObject(defs) ==
    (IF "MBEDTLS_AES_DECRYPT_ALT" \in defs THEN {} ELSE {DecryptSymbol})
    \cup (IF "MBEDTLS_AES_ENCRYPT_ALT" \in defs THEN {} ELSE {EncryptSymbol})

\* The implementations of a symbol that the link sees.
Providers(sym, defs) ==
    (IF sym \in AesAltObject(defs) THEN {"alternative"} ELSE {})
    \cup (IF sym \in ReferenceObject(defs) THEN {"reference"} ELSE {})

(***************************************************************************)
(* Run time.                                                               *)
(***************************************************************************)

\* A body that reports success.
decrypt_returns_success(ctx, input, output) ==
    [ret |-> 0, ctx |-> ctx, input |-> input, output |-> output]

\* A body that copies the input block to the output before failing.
decrypt_copies_input(ctx, input, output) ==
    [ret |-> MBEDTLS_ERR_PLATFORM_FEATURE_UNSUPPORTED,
     ctx |-> ctx, input |-> input, output |-> input]

\* A body that clears the output block before failing.
decrypt_zeroes_output(ctx, input, output) ==
    [ret |-> MBEDTLS_ERR_PLATFORM_FEATURE_UNSUPPORTED,
     ctx |-> ctx, input |-> input, output |-> Fill(0)]

\* A body that is implemented for 128-bit keys only.
decrypt_only_aes128(ctx, input, output) ==
    [ret |-> IF ctx.keybits = 128 THEN 0 ELSE MBEDTLS_ERR_PLATFORM_FEATURE_UNSUPPORTED,
     ctx |-> ctx, input |-> input,
     output |-> IF ctx.keybits = 128 THEN input ELSE output]

\* The body of mbedtls_internal_aes_decrypt (lines 28-37): what the call
\* returns and what it leaves in the objects its three pointers name.
mbedtls_internal_aes_decrypt(ctx, input, output) ==
    [ ret    |-> MBEDTLS_ERR_PLATFORM_FEATURE_UNSUPPORTED,
      ctx    |-> ctx,        \* (void) ctx;
      input  |-> input,      \* (void) input;
      output |-> output ]    \* (void) output;

\* The contents of the three objects a call's pointers name, in memory (cs, bs).
Objects(c, cs, bs) ==
    [valid |-> TRUE, ctx |-> cs[c.ctx], input |-> bs[c.input], output |-> bs[c.output]]

TypeOK ==
    /\ config \in SUBSET Macros
    /\ ctxs \in [CtxIds -> Contexts]
    /\ bufs \in [BufIds -> Blocks]
    /\ pc \in [Threads -> {"idle", "called", "returned"}]
    /\ \A t \in Threads : ret[t] \subseteq Int /\ Cardinality(ret[t]) <= 1

Init ==
    /\ config \in SUBSET Macros
    /\ ctxs = [k \in CtxIds |-> Unpopulated]
    /\ bufs = [b \in BufIds |-> Fill(0)]
    /\ pc = [t \in Threads |-> "idle"]
    /\ call = [t \in Threads |-> NoCall]
    /\ ret = [t \in Threads |-> NoRet]
    /\ pre = [t \in Threads |-> NoMem]
    /\ post = [t \in Threads |-> NoMem]

AllIdle == \A t \in Threads : pc[t] = "idle"

\* Key expansion by the owner of a context, outside any transform call.
SetKey(k, bits) ==
    /\ "MBEDTLS_AES_C" \in config
    /\ AllIdle
    /\ ctxs' = [ctxs EXCEPT ![k] = Expanded(bits)]
    /\ UNCHANGED <<config, bufs, pc, call, ret, pre, post>>

\* The owner of a buffer fills it, outside any transform call.
CallerWrite(b, v) ==
    /\ AllIdle
    /\ bufs' = [bufs EXCEPT ![b] = Fill(v)]
    /\ UNCHANGED <<config, ctxs, pc, call, ret, pre, post>>

\* Thread t calls mbedtls_internal_aes_decrypt(&ctxs[k], bufs[i], bufs[o]).
\* The call binds to the implementation the link resolved the symbol to;
\* only the body in aes_alt.c is modelled.
Call(t, k, i, o) ==
    /\ pc[t] = "idle"
    /\ Providers(DecryptSymbol, config) = {"alternative"}
    /\ pc' = [pc EXCEPT ![t] = "called"]
    /\ call' = [call EXCEPT ![t] =
                  [impl |-> "alternative", ctx |-> k, input |-> i, output |-> o]]
    /\ ret' = [ret EXCEPT ![t] = NoRet]
    /\ pre' = [pre EXCEPT ![t] = Objects(call'[t], ctxs, bufs)]
    /\ post' = [post EXCEPT ![t] = NoMem]
    /\ UNCHANGED <<config, ctxs, bufs>>

\* Thread t leaves the function with result r: the objects its pointers name
\* receive what the body left in them and the caller receives r.ret.
Complete(t, r) ==
    LET c == call[t]
        newctxs == [ctxs EXCEPT ![c.ctx] = r.ctx]
        newbufs == [bufs EXCEPT ![c.output] = r.output]
    IN  /\ ctxs' = newctxs
        /\ bufs' = newbufs
        /\ ret' = [ret EXCEPT ![t] = {r.ret}]
        /\ post' = [post EXCEPT ![t] = Objects(c, newctxs, newbufs)]
        /\ pc' = [pc EXCEPT ![t] = "returned"]
        /\ UNCHANGED <<config, call, pre>>

Result(t) ==
    mbedtls_internal_aes_decrypt(ctxs[call[t].ctx], bufs[call[t].input],
                                 bufs[call[t].output])

\* A function that serialises the calls that use one context.
DecryptBlock_Locked(t) ==
    /\ pc[t] = "called"
    /\ \A u \in Threads \ {t} : pc[u] = "called" => call[u].ctx # call[t].ctx
    /\ Complete(t, Result(t))

\* A function that spins when the context has no key.
DecryptBlock_Hang(t) ==
    /\ pc[t] = "called"
    /\ IF ctxs[call[t].ctx].keybits = 0
          THEN UNCHANGED vars
          ELSE Complete(t, Result(t))

\* A function with hidden state: it fails until one call has failed, then
\* reports success.
DecryptBlock_Warm(t) ==
    /\ pc[t] = "called"
    /\ Complete(t, IF \E u \in Threads : ret[u] = {MBEDTLS_ERR_PLATFORM_FEATURE_UNSUPPORTED}
                     THEN [Result(t) EXCEPT !.ret = 0]
                     ELSE Result(t))

\* A function that falls back to the reference transform.
DecryptBlock_Fallback(t) ==
    /\ pc[t] = "called"
    /\ ctxs' = ctxs
    /\ bufs' = [bufs EXCEPT ![call[t].output] = Fill(0)]
    /\ ret' = [ret EXCEPT ![t] = {0}]
    /\ call' = [call EXCEPT ![t].impl = "reference"]
    /\ post' = [post EXCEPT ![t] = Objects(call[t], ctxs', bufs')]
    /\ pc' = [pc EXCEPT ![t] = "returned"]
    /\ UNCHANGED <<config, pre>>

\* The function body runs to its return statement.
DecryptBlock(t) ==
    /\ pc[t] = "called"
    /\ Complete(t, Result(t))

\* The caller takes the return value and carries on.
Resume(t) ==
    /\ pc[t] = "returned"
    /\ pc' = [pc EXCEPT ![t] = "idle"]
    /\ call' = [call EXCEPT ![t] = NoCall]
    /\ pre' = [pre EXCEPT ![t] = NoMem]
    /\ post' = [post EXCEPT ![t] = NoMem]
    /\ UNCHANGED <<config, ctxs, bufs, ret>>

Next ==
    \/ \E k \in CtxIds, bits \in KeyBits : SetKey(k, bits)
    \/ \E b \in BufIds, v \in 0..MaxFill : CallerWrite(b, v)
    \/ \E t \in Threads, k \in CtxIds, i \in BufIds, o \in BufIds : Call(t, k, i, o)
    \/ \E t \in Threads : DecryptBlock(t)
    \/ \E t \in Threads : Resume(t)

Spec == Init /\ [][Next]_vars

\* A thread that is inside the function keeps executing it.
FairSpec == Spec /\ \A t \in Threads : WF_vars(DecryptBlock(t))

(***************************************************************************)
(* Properties.                                                             *)
(***************************************************************************)

Unsupported == MBEDTLS_ERR_PLATFORM_FEATURE_UNSUPPORTED

Returned(t) == pc[t] = "returned"
InCall(t)   == pc[t] = "called"
Aliased(t)  == call[t].input = call[t].output

\* A build in which aes_alt.c is meant to supply the decrypt stub.
StubBuild == {"MBEDTLS_AES_C", "MBEDTLS_AES_DECRYPT_ALT"} \subseteq config

\* C1: in a build with MBEDTLS_AES_C and MBEDTLS_AES_DECRYPT_ALT defined,
\* every completed call of mbedtls_internal_aes_decrypt returned
\* MBEDTLS_ERR_PLATFORM_FEATURE_UNSUPPORTED, whatever the context and the
\* input; no call returned 0.
C1_AlwaysUnsupported ==
    \A t \in Threads :
        /\ 0 \notin ret[t]
        /\ ret[t] \subseteq {Unsupported}
        /\ (StubBuild /\ Returned(t)) => ret[t] = {Unsupported}

\* A call with a 256-bit key schedule and a non-zero input block has returned.
C1_Witness ==
    \E t \in Threads :
        /\ StubBuild /\ Returned(t)
        /\ pre[t].ctx.keybits = 256
        /\ pre[t].input = Fill(MaxFill)

\* C2: the step in which a call of the stub returns changes no context and no
\* block buffer, and touches no other thread; on return the context, the
\* input block and the output block hold what they held on entry.
C2_Frame ==
    [][ \A t \in Threads :
          (InCall(t) /\ pc'[t] = "returned") =>
              /\ ctxs' = ctxs
              /\ bufs' = bufs
              /\ config' = config
              /\ post'[t] = pre[t]
              /\ \A u \in Threads \ {t} :
                    /\ pc'[u] = pc[u] /\ call'[u] = call[u] /\ ret'[u] = ret[u]
                    /\ pre'[u] = pre[u] /\ post'[u] = post[u] ]_vars

\* A failed call whose output buffer is distinct from its input and held a
\* different, non-zero block, under a populated context.
C2_Witness ==
    \E t \in Threads :
        /\ Returned(t) /\ ~Aliased(t)
        /\ pre[t].ctx.keybits # 0
        /\ pre[t].output = Fill(MaxFill)
        /\ pre[t].input # pre[t].output

\* C3 as stated: two calls with identical context and input give the
\* identical result and the identical output buffer.
C3_SameCtxInput_SameOutput ==
    \A s, t \in Threads :
        (/\ Returned(s) /\ Returned(t)
         /\ pre[s].ctx = pre[t].ctx
         /\ pre[s].input = pre[t].input)
        => (ret[s] = ret[t] /\ post[s].output = post[t].output)

\* C3, amended: two calls with identical context and input give the identical
\* result, and the identical output buffer when the output buffer held the
\* same bytes before both calls.
C3_Deterministic ==
    \A s, t \in Threads :
        (/\ Returned(s) /\ Returned(t)
         /\ pre[s].ctx = pre[t].ctx
         /\ pre[s].input = pre[t].input)
        => /\ ret[s] = ret[t]
           /\ pre[s].output = pre[t].output => post[s] = post[t]

\* Two different threads have completed calls on equal argument contents:
\* a populated context and a non-zero input block.
C3_Witness ==
    \E s, t \in Threads :
        /\ s # t /\ Returned(s) /\ Returned(t)
        /\ pre[s] = pre[t]
        /\ pre[s].ctx.keybits # 0
        /\ pre[s].input # Fill(0)

\* C4 as stated: exactly one implementation of the decrypt direction is
\* linked into any build; with MBEDTLS_AES_DECRYPT_ALT defined it is the stub
\* alone; the implementation that runs is the same for every call.
C4_ExactlyOneProvider_AnyBuild ==
    /\ Cardinality(Providers(DecryptSymbol, config)) = 1
    /\ "MBEDTLS_AES_DECRYPT_ALT" \in config
          => Providers(DecryptSymbol, config) = {"alternative"}
    /\ \A t \in Threads : pc[t] # "idle" => {call[t].impl} = Providers(DecryptSymbol, config)

\* C4, amended: in any build in which MBEDTLS_AES_C is defined, exactly one
\* implementation of the decrypt direction is linked; with
\* MBEDTLS_AES_DECRYPT_ALT defined it is the stub alone, the reference being
\* excluded; the implementation that runs is the same for every call.
C4_ExactlyOneProvider ==
    /\ "MBEDTLS_AES_C" \in config =>
          /\ Cardinality(Providers(DecryptSymbol, config)) = 1
          /\ "MBEDTLS_AES_DECRYPT_ALT" \in config
                => Providers(DecryptSymbol, config) = {"alternative"}
    /\ \A t \in Threads : pc[t] # "idle" => {call[t].impl} = Providers(DecryptSymbol, config)
    /\ \A s, t \in Threads : (pc[s] # "idle" /\ pc[t] # "idle") => call[s].impl = call[t].impl

\* Two calls are under way or done in a build with the alternative enabled.
C4_Witness ==
    /\ StubBuild
    /\ \E s, t \in Threads : s # t /\ Returned(s) /\ InCall(t)

\* C5: a call that is inside the function can only leave it by returning, in
\* one step, MBEDTLS_ERR_PLATFORM_FEATURE_UNSUPPORTED to the thread that made
\* it, still bound to the alternative implementation; and once some call has
\* failed, every call that completes fails too.
C5_FailClosed ==
    [][ \A t \in Threads :
          /\ InCall(t) => pc'[t] \in {"called", "returned"}
          /\ (InCall(t) /\ pc'[t] = "returned") =>
                /\ ret'[t] = {Unsupported}
                /\ call'[t] = call[t]
                /\ call[t].impl = "alternative"
          /\ ((\E u \in Threads : ret[u] = {Unsupported}) /\ pc'[t] = "returned")
                => ret'[t] = {Unsupported} ]_vars

\* A call has failed after an earlier call had failed and been dealt with.
C5_Witness ==
    \E s, t \in Threads :
        /\ s # t
        /\ pc[s] = "idle" /\ ret[s] = {Unsupported}
        /\ Returned(t) /\ ret[t] = {Unsupported}

\* C6: with any number of threads inside the function, on the same context
\* or not, a thread inside it can always take its return step, the context
\* it was given is as it was on entry, and what it gets is what the body
\* gives on the entry contents alone.
C6_Concurrent ==
    \A t \in Threads :
        /\ InCall(t) => /\ ENABLED DecryptBlock(t)
                        /\ ctxs[call[t].ctx] = pre[t].ctx
        /\ Returned(t) =>
              LET alone == mbedtls_internal_aes_decrypt(pre[t].ctx, pre[t].input,
                                                        pre[t].output)
              IN  /\ ret[t] = {alone.ret}
                  /\ post[t].ctx = alone.ctx
                  /\ post[t].output = alone.output
                  /\ post[t].input = (IF Aliased(t) THEN alone.output ELSE alone.input)
                  /\ ctxs[call[t].ctx] = pre[t].ctx

\* Two threads were inside the function on the same context at once; one has
\* returned while the other is still inside.
C6_Witness ==
    \E s, t \in Threads :
        /\ s # t
        /\ call[s].impl # "none" /\ call[t].impl # "none"
        /\ call[s].ctx = call[t].ctx
        /\ InCall(s) /\ Returned(t)
        /\ pre[t].ctx.keybits # 0

\* C7 as stated: a call with input and output aliased gives the same return
\* value and the same final buffer as a call with a distinct output buffer
\* followed by copying that output into the buffer.
C7_InPlace_CopyAlways ==
    \A s, t \in Threads :
        (/\ Returned(s) /\ Returned(t)
         /\ Aliased(s) /\ ~Aliased(t)
         /\ pre[s].ctx = pre[t].ctx
         /\ pre[s].input = pre[t].input)
        => (ret[s] = ret[t] /\ post[s].input = post[t].output)

\* The buffer of a call with a distinct output, after the caller copied the
\* output back only if the call succeeded.
AfterCopyOnSuccess(t) == IF ret[t] = {0} THEN post[t].output ELSE post[t].input

\* C7, amended: a call with input and output aliased gives the same return
\* value as a call with a distinct output buffer, and the same final buffer
\* when the caller copies the output back only after a successful return.
C7_InPlace ==
    \A s, t \in Threads :
        (/\ Returned(s) /\ Returned(t)
         /\ Aliased(s) /\ ~Aliased(t)
         /\ pre[s].ctx = pre[t].ctx
         /\ pre[s].input = pre[t].input)
        => (ret[s] = ret[t] /\ post[s].input = AfterCopyOnSuccess(t))

\* An in-place call and a call with a distinct output buffer, on the same
\* context and the same non-zero input, have both returned.
C7_Witness ==
    \E s, t \in Threads :
        /\ Returned(s) /\ Returned(t)
        /\ Aliased(s) /\ ~Aliased(t)
        /\ pre[s].ctx = pre[t].ctx
        /\ pre[s].input = pre[t].input
        /\ pre[s].input = Fill(MaxFill)
        /\ pre[t].output # pre[t].input

\* C8: every call that has entered the function returns to its caller.
C8_Terminates ==
    \A t \in Threads : InCall(t) ~> Returned(t)

\* A call on a context that was never given a key has returned.
C8_Witness ==
    \E t \in Threads : Returned(t) /\ pre[t].ctx = Unpopulated /\ ret[t] # {}

\* What a call did to each object it was given: nothing, or the new contents.
Effect(t) ==
    [ ctx    |-> IF post[t].ctx = pre[t].ctx THEN {} ELSE {post[t].ctx},
      input  |-> IF post[t].input = pre[t].input THEN {} ELSE {post[t].input},
      output |-> IF post[t].output = pre[t].output THEN {} ELSE {post[t].output} ]

\* C9: any two calls, whatever their contexts (key-length variant, round
\* keys, keyed or not) and input blocks, have the same return value and the
\* same effect on the objects they were given.
C9_DataIndependent ==
    \A s, t \in Threads :
        (Returned(s) /\ Returned(t)) => (ret[s] = ret[t] /\ Effect(s) = Effect(t))

\* Two calls have returned that differ in key-length variant and in input.
C9_Witness ==
    \E s, t \in Threads :
        /\ Returned(s) /\ Returned(t)
        /\ pre[s].ctx.keybits = 128
        /\ pre[t].ctx.keybits \in {0, 192, 256}
        /\ pre[s].input # pre[t].input

\* C10: aes_alt.c defines mbedtls_internal_aes_decrypt exactly when
\* MBEDTLS_AES_C and MBEDTLS_AES_DECRYPT_ALT are both defined and nothing
\* otherwise; it never defines the encrypt function, and the providers of
\* the encrypt direction are the same with and without
\* MBEDTLS_AES_DECRYPT_ALT.
C10_StubIffBothDefined ==
    /\ AesAltObject(config) = (IF StubBuild THEN {DecryptSymbol} ELSE {})
    /\ EncryptSymbol \notin AesAltObject(config)
    /\ Providers(EncryptSymbol, config)
          = Providers(EncryptSymbol, config \ {"MBEDTLS_AES_DECRYPT_ALT"})
    /\ Providers(EncryptSymbol, config)
          = Providers(EncryptSymbol, config \cup {"MBEDTLS_AES_DECRYPT_ALT"})
    /\ \A t \in Threads : call[t].impl = "alternative" => StubBuild

\* The stub is part of the build and has been run.
C10_Witness ==
    /\ DecryptSymbol \in AesAltObject(config)
    /\ \E t \in Threads : Returned(t) /\ call[t].impl = "alternative"

====
